---- MODULE Spec2Model ----
(***************************************************************************)
(* State-machine model of src/scripts/content.ts: the SubtitlesManager     *)
(* controller (caption overlay on a page video) and the                    *)
(* chrome.runtime.onMessage listener that drives it.                       *)
(*                                                                         *)
(* Times are in half seconds (1.5 s = 3, 2.0 s = 4).  A DOM node is a      *)
(* number; a reference that is null in the program is Null.  The values    *)
(* the program reads from its environment (the video's currentTime, the    *)
(* video's bounding box and the scroll position, the outcome of the        *)
(* storage read) are inputs of the action that reads them.                 *)
(***************************************************************************)
EXTENDS Integers, Sequences, FiniteSets, TLC

VARIABLES
  subtitles,          \* this.subtitles
  video,              \* this.video: index of the video in document order, or Null
  subtitleElement,    \* this.subtitleElement: node or Null
  shadowHost,         \* this.shadowHost: node or Null
  shadowRoot,         \* this.shadowRoot: node or Null
  isFullscreen,       \* this.isFullscreen
  settings,           \* this.settings: a settings record or NullSettings
  listeners,          \* handlers registered by attachEventListeners, per event source
  parentOf,           \* DOM: the parent of every mount node ("none" = detached)
  hostStyle,          \* shadowHost.style.top / left
  cssText,            \* subtitleElement.style.cssText as written by applyStyles
  textContent,        \* subtitleElement.textContent
  display,            \* subtitleElement.style.display
  currentTime,        \* video.currentTime as read by the last content update
  fullscreenElement,  \* document.fullscreenElement
  fsEvents,           \* fullscreen-change notifications queued for dispatch
  pending,            \* init calls suspended on chrome.storage.local.get
  response,           \* the response to the message whose handling the last step completed
  calls,              \* the methods the last step called, in order, with results
  lastInit            \* the arguments of the init call started last

vars == <<subtitles, video, subtitleElement, shadowHost, shadowRoot, isFullscreen,
          settings, listeners, parentOf, hostStyle, cssText, textContent, display,
          currentTime, fullscreenElement, fsEvents, pending, response, calls,
          lastInit>>

(***************************************************************************)
(* Bounds of the model.                                                    *)
(***************************************************************************)
MaxTime == 4        \* playback times of the content check: 0..MaxTime
MaxNodes == 2       \* mount nodes the document can hold at once
MaxInits == 2       \* init calls that attach listeners or are suspended
MaxEvents == 1      \* fullscreen-change notifications queued at once
MaxLen == 2         \* caption lists of the content check: up to MaxLen captions
MaxCapTime == 2     \* caption bounds of the content check: 0..MaxCapTime

(***************************************************************************)
(* Values.                                                                 *)
(***************************************************************************)
Null == -1          \* a null reference (video, node)
Undefined == -2     \* an absent optional field (videoId, videoIndex, syncOffset)
NaN == -9999        \* the number NaN
NoPx == -10000      \* a style length that was never set

Nodes == 1..MaxNodes

\* video.currentTime as the handlers read it: 1.5 s
Times == {3}

\* document.querySelectorAll("video"): ids in document order, "" = no id
VideoIds == <<"", "v2", "">>
Videos == 0..(Len(VideoIds) - 1)

NullSettings == [null |-> TRUE]

DefaultSettings ==
  [syncOffset |-> 0, fontSize |-> 20, fontColor |-> "#ffffff", background |-> FALSE,
   backgroundColor |-> "#000000", fontFamily |-> "Arial, sans-serif",
   offsetFromBottom |-> 60, textShadow |-> TRUE, shadowColor |-> "#000000",
   verticalPadding |-> 8, horizontalPadding |-> 8]

\* settings records that arrive in messages or sit in the store
SettingsPool ==
  { [DefaultSettings EXCEPT !.syncOffset = 1, !.background = TRUE,
                            !.backgroundColor = "#ff0000", !.offsetFromBottom = 20],
    [DefaultSettings EXCEPT !.syncOffset = NaN, !.textShadow = FALSE,
                            !.fontSize = 30] }

\* the video's bounding box and window.scrollY, or a read that throws
Geometries ==
  { [bottom |-> 400, left |-> 100, width |-> 600, scrollY |-> 0, throws |-> FALSE],
    [bottom |-> 0, left |-> 0, width |-> 0, scrollY |-> 0, throws |-> TRUE] }

Caption(s, e, t) == [start |-> s, end |-> e, text |-> t]

\* caption lists that arrive in ADD_SUBTITLES messages
HiBye == << Caption(0, 4, "Hi"), Caption(4, 8, "Bye") >>

CaptionSets == { HiBye, << Caption(1, 3, "A"), Caption(2, 5, "B") >> }

\* target descriptors: videoId is "undefined" when the field is absent
AllTargets ==
  [videoId : {"undefined", "", "v2", "zz"}, videoIndex : {Undefined, 0, 1, 2, 3}]

NoTarget == [videoId |-> "undefined", videoIndex |-> Undefined]

\* target descriptors that arrive in ADD_SUBTITLES messages: one that resolves
\* to the first video and one that matches no video
Targets == { NoTarget, [videoId |-> "zz", videoIndex |-> 0] }

(***************************************************************************)
(* The controller as one record: the fields of this, the DOM nodes it      *)
(* owns, and the document state it reads.  Every method below is a         *)
(* function from such a record (and the values it reads from the           *)
(* environment) to the record after the call.                              *)
(***************************************************************************)
This ==
  [subtitles |-> subtitles, video |-> video, subtitleElement |-> subtitleElement,
   shadowHost |-> shadowHost, shadowRoot |-> shadowRoot, isFullscreen |-> isFullscreen,
   settings |-> settings, listeners |-> listeners, parentOf |-> parentOf,
   hostStyle |-> hostStyle, cssText |-> cssText, textContent |-> textContent,
   display |-> display, currentTime |-> currentTime,
   fullscreenElement |-> fullscreenElement, calls |-> << >>]

Commit(st) ==
  /\ subtitles' = st.subtitles
  /\ video' = st.video
  /\ subtitleElement' = st.subtitleElement
  /\ shadowHost' = st.shadowHost
  /\ shadowRoot' = st.shadowRoot
  /\ isFullscreen' = st.isFullscreen
  /\ settings' = st.settings
  /\ listeners' = st.listeners
  /\ parentOf' = st.parentOf
  /\ hostStyle' = st.hostStyle
  /\ cssText' = st.cssText
  /\ textContent' = st.textContent
  /\ display' = st.display
  /\ currentTime' = st.currentTime
  /\ calls' = st.calls

\* the record after a call of method fn that returned ret is noted
Called(st, fn, ret) == [st EXCEPT !.calls = Append(@, [fn |-> fn, ret |-> ret])]

NoStyle == [top |-> NoPx, left |-> NoPx]
NoCss == [set |-> FALSE]

(***************************************************************************)
(* findTargetVideo                                                         *)
(***************************************************************************)
\* videos.find((v) => v.id === id) || null
FindVideoById(id) ==
  IF \E v \in Videos : VideoIds[v + 1] = id
    THEN CHOOSE v \in Videos :
           /\ VideoIds[v + 1] = id
           /\ \A w \in Videos : VideoIds[w + 1] = id => v <= w
    ELSE Null

\* videos[i] || null
VideoAt(i) == IF i \in Videos THEN i ELSE Null

\* mutant: videoIndex is looked at before videoId
findTargetVideo_IndexFirst(target) ==
  IF target.videoIndex # Undefined
    THEN VideoAt(target.videoIndex)
    ELSE IF target.videoId # "undefined" /\ target.videoId # ""
           THEN FindVideoById(target.videoId)
           ELSE VideoAt(0)

findTargetVideo(target) ==
  IF target.videoId # "undefined" /\ target.videoId # ""
    THEN FindVideoById(target.videoId)
    ELSE IF target.videoIndex # Undefined
           THEN VideoAt(target.videoIndex)
           ELSE VideoAt(0)

(***************************************************************************)
(* loadSettings: outcome is what chrome.storage.local.get produced         *)
(***************************************************************************)
StoreOutcomes ==
  [kind : {"value"}, value : SettingsPool]
    \cup { [kind |-> "absent", value |-> NullSettings],
           [kind |-> "throws", value |-> NullSettings] }

loadSettings(st, outcome) ==
  IF outcome.kind = "throws" THEN st
  ELSE IF outcome.kind = "value" THEN [st EXCEPT !.settings = outcome.value]
  ELSE [st EXCEPT !.settings = DefaultSettings]

(***************************************************************************)
(* applyStyles: assigning style.cssText replaces the whole inline style,   *)
(* the display property included                                           *)
(***************************************************************************)
StyleOf(s) ==
  [set |-> TRUE, color |-> s.fontColor, fontSize |-> s.fontSize,
   fontFamily |-> s.fontFamily, paddingV |-> s.verticalPadding,
   paddingH |-> s.horizontalPadding,
   backgroundColor |-> IF s.background THEN s.backgroundColor ELSE "transparent",
   textShadow |-> IF s.textShadow THEN s.shadowColor ELSE "none"]

applyStyles(st) ==
  IF st.subtitleElement = Null \/ st.settings = NullSettings
    THEN Called(st, "applyStyles", "void")
    ELSE Called([st EXCEPT !.cssText = StyleOf(st.settings), !.display = ""],
                "applyStyles", "void")

(***************************************************************************)
(* updateSubtitlePosition: g is the geometry read                          *)
(***************************************************************************)
\* mutant: top is written before the failing read of the width
updateSubtitlePosition_Partial(st, g) ==
  IF st.shadowHost = Null \/ st.video = Null \/ st.settings = NullSettings
    THEN Called(st, "updateSubtitlePosition", "false")
    ELSE IF g.throws
      THEN Called([st EXCEPT !.hostStyle.top = g.bottom - st.settings.offsetFromBottom],
                  "updateSubtitlePosition", "false")
      ELSE Called([st EXCEPT !.hostStyle =
                      [top |-> g.bottom - st.settings.offsetFromBottom + g.scrollY,
                       left |-> g.left + (g.width \div 2)]],
                  "updateSubtitlePosition", "true")

updateSubtitlePosition(st, g) ==
  IF st.shadowHost = Null \/ st.video = Null \/ st.settings = NullSettings
    THEN Called(st, "updateSubtitlePosition", "false")
    ELSE IF g.throws
      THEN Called(st, "updateSubtitlePosition", "false")
      ELSE Called([st EXCEPT !.hostStyle =
                      [top |-> g.bottom - st.settings.offsetFromBottom + g.scrollY,
                       left |-> g.left + (g.width \div 2)]],
                  "updateSubtitlePosition", "true")

(***************************************************************************)
(* updateSubtitleContent: t is video.currentTime                           *)
(***************************************************************************)
\* mutant: NaN passes the validity check
isValidTimeOffset_AcceptsNaN(x) == x # Undefined

\* isValidTimeOffset: a number that is finite
isValidTimeOffset(x) == x # Undefined /\ x # NaN

\* this.settings?.syncOffset
SyncOffsetOf(s) == IF s = NullSettings THEN Undefined ELSE s.syncOffset

\* Array.prototype.find: the index of the first element the predicate
\* accepts, 0 when there is none
RECURSIVE FindFrom(_, _, _)
FindFrom(subs, t, i) ==
  IF i > Len(subs) THEN 0
  ELSE IF subs[i].start <= t /\ subs[i].end >= t THEN i
  ELSE FindFrom(subs, t, i + 1)

\* mutant: the last caption that holds t is found, not the first
RECURSIVE FindLastFrom(_, _, _)
FindLastFrom(subs, t, i) ==
  IF i = 0 THEN 0
  ELSE IF subs[i].start <= t /\ subs[i].end >= t THEN i
  ELSE FindLastFrom(subs, t, i - 1)

FindSubtitle_Last(subs, t) == FindLastFrom(subs, t, Len(subs))

\* mutant: a caption ends before its end time
RECURSIVE FindFromEndExclusive(_, _, _)
FindFromEndExclusive(subs, t, i) ==
  IF i > Len(subs) THEN 0
  ELSE IF subs[i].start <= t /\ subs[i].end > t THEN i
  ELSE FindFromEndExclusive(subs, t, i + 1)

FindSubtitle_EndExclusive(subs, t) == FindFromEndExclusive(subs, t, 1)

FindSubtitle(subs, t) == FindFrom(subs, t, 1)

updateSubtitleContent(st, t) ==
  IF st.subtitleElement = Null \/ st.video = Null
    THEN Called(st, "updateSubtitleContent", "false")
    ELSE
      LET timeOffset == IF isValidTimeOffset(SyncOffsetOf(st.settings))
                          THEN st.settings.syncOffset ELSE 0
          adjustedTime == t + timeOffset
          i == FindSubtitle(st.subtitles, adjustedTime)
      IN IF i = 0
           THEN Called([st EXCEPT !.currentTime = t, !.textContent = "",
                                  !.display = "none"],
                       "updateSubtitleContent", "false")
           ELSE Called([st EXCEPT !.currentTime = t, !.display = "block",
                                  !.textContent = st.subtitles[i].text],
                       "updateSubtitleContent", "true")

(***************************************************************************)
(* appendSubtitleElement / removeSubtitleElement: appendChild moves the    *)
(* node under its new parent, remove() detaches it                         *)
(***************************************************************************)
\* mutant: the fullscreen branch is missing, the node always goes under body
appendSubtitleElement_Body(st) ==
  IF st.shadowHost = Null
    THEN Called(st, "appendSubtitleElement", "void")
    ELSE Called([st EXCEPT !.isFullscreen = (st.fullscreenElement # "none"),
                           !.parentOf[st.shadowHost] = "body"],
                "appendSubtitleElement", "void")

appendSubtitleElement(st) ==
  IF st.shadowHost = Null
    THEN Called(st, "appendSubtitleElement", "void")
    ELSE
      LET fs == st.fullscreenElement # "none"
          container == IF fs THEN st.fullscreenElement ELSE "body"
      IN Called([st EXCEPT !.isFullscreen = fs,
                           !.parentOf[st.shadowHost] = container],
                "appendSubtitleElement", "void")

\* mutant: the mount node is dereferenced without being removed from the
\* document
removeSubtitleElement_NoDetach(st) ==
  Called([st EXCEPT !.parentOf =
                      [n \in Nodes |-> IF n = st.shadowHost THEN "stale" ELSE @[n]],
                    !.shadowHost = Null, !.hostStyle = NoStyle, !.shadowRoot = Null,
                    !.subtitleElement = Null, !.cssText = NoCss, !.textContent = "",
                    !.display = ""],
         "removeSubtitleElement", "void")

\* the nodes that are dropped take their style and text with them
removeSubtitleElement(st) ==
  LET s1 == IF st.shadowHost # Null
              THEN [st EXCEPT !.parentOf[st.shadowHost] = "none",
                              !.shadowHost = Null, !.hostStyle = NoStyle]
              ELSE st
      s2 == IF s1.shadowRoot # Null THEN [s1 EXCEPT !.shadowRoot = Null] ELSE s1
      s3 == IF s2.subtitleElement # Null
              THEN [s2 EXCEPT !.subtitleElement = Null, !.cssText = NoCss,
                              !.textContent = "", !.display = ""]
              ELSE s2
  IN Called(s3, "removeSubtitleElement", "void")

(***************************************************************************)
(* addSubtitleElement                                                      *)
(***************************************************************************)
\* document.createElement("div"): a node that is neither in the document
\* nor referenced
FreeNodes(st) == { n \in Nodes : st.parentOf[n] = "none" /\ n # st.shadowHost }

CreateElement(st) == CHOOSE n \in FreeNodes(st) : \A k \in FreeNodes(st) : n <= k

\* mutant: the new mount node is never appended to the document
addSubtitleElement_NoAppend(st, g, t) ==
  IF st.video = Null \/ st.settings = NullSettings
    THEN Called(st, "addSubtitleElement", "false")
    ELSE
      LET s1 == removeSubtitleElement(st)
          n == CreateElement(s1)
          s2 == [s1 EXCEPT !.shadowHost = n, !.hostStyle = NoStyle,
                           !.shadowRoot = n, !.subtitleElement = n,
                           !.cssText = NoCss, !.textContent = "", !.display = ""]
      IN Called(updateSubtitleContent(updateSubtitlePosition(applyStyles(s2), g), t),
                "addSubtitleElement", "true")

addSubtitleElement(st, g, t) ==
  IF st.video = Null \/ st.settings = NullSettings
    THEN Called(st, "addSubtitleElement", "false")
    ELSE
      LET s1 == removeSubtitleElement(st)
          n == CreateElement(s1)
          s2 == [s1 EXCEPT !.shadowHost = n, !.hostStyle = NoStyle,
                           !.shadowRoot = n, !.subtitleElement = n,
                           !.cssText = NoCss, !.textContent = "", !.display = ""]
          s3 == applyStyles(s2)
          s4 == updateSubtitlePosition(s3, g)
          s5 == updateSubtitleContent(s4, t)
          s6 == appendSubtitleElement(s5)
      IN Called(s6, "addSubtitleElement", "true")

(***************************************************************************)
(* attachEventListeners: every call registers new closures, so nothing is  *)
(* deduplicated                                                            *)
(***************************************************************************)
NoListeners ==
  [timeupdate |-> [v \in Videos |-> 0], resizeObserver |-> [v \in Videos |-> 0],
   resize |-> 0, scroll |-> 0, fullscreenchange |-> 0]

attachEventListeners(st) ==
  IF st.video = Null
    THEN Called(st, "attachEventListeners", "false")
    ELSE Called([st EXCEPT !.listeners.timeupdate[st.video] = @ + 1,
                           !.listeners.resizeObserver[st.video] = @ + 1,
                           !.listeners.resize = @ + 1,
                           !.listeners.scroll = @ + 1,
                           !.listeners.fullscreenchange = @ + 1],
                "attachEventListeners", "true")

(***************************************************************************)
(* handleFullscreenChange                                                  *)
(***************************************************************************)
\* mutant: the node is re-appended on every notification
handleFullscreenChange_Always(st, g) ==
  LET s1 == [st EXCEPT !.isFullscreen = (st.fullscreenElement # "none")]
  IN IF s1.shadowHost # Null
       THEN LET s2 == Called([s1 EXCEPT !.parentOf[s1.shadowHost] = "none"],
                             "shadowHost.remove", "void")
            IN updateSubtitlePosition(appendSubtitleElement(s2), g)
       ELSE s1

handleFullscreenChange(st, g) ==
  LET wasFullscreen == st.isFullscreen
      s1 == [st EXCEPT !.isFullscreen = (st.fullscreenElement # "none")]
  IN IF wasFullscreen # s1.isFullscreen /\ s1.shadowHost # Null
       THEN LET s2 == Called([s1 EXCEPT !.parentOf[s1.shadowHost] = "none"],
                             "shadowHost.remove", "void")
                s3 == appendSubtitleElement(s2)
            IN updateSubtitlePosition(s3, g)
       ELSE s1

(***************************************************************************)
(* updateSettings                                                          *)
(***************************************************************************)
\* mutant: the styles are applied before the snapshot is replaced
updateSettings_StaleStyles(st, s, g, t) ==
  IF st.subtitleElement # Null
    THEN updateSubtitleContent(
           updateSubtitlePosition([applyStyles(st) EXCEPT !.settings = s], g), t)
    ELSE [st EXCEPT !.settings = s]

updateSettings(st, s, g, t) ==
  LET s1 == [st EXCEPT !.settings = s]
  IN IF s1.subtitleElement # Null
       THEN updateSubtitleContent(updateSubtitlePosition(applyStyles(s1), g), t)
       ELSE s1

(***************************************************************************)
(* init: initCall is the part before the await, initResume the part that   *)
(* runs when chrome.storage.local.get has settled                          *)
(***************************************************************************)
initCall(st, subs) == [st EXCEPT !.subtitles = subs]

initResume(st, target, outcome, g, t) ==
  LET s1 == loadSettings(st, outcome)
      s2 == [s1 EXCEPT !.video = findTargetVideo(target)]
  IN IF s2.video = Null
       THEN Called(s2, "init", "false")
       ELSE Called(attachEventListeners(addSubtitleElement(s2, g, t)), "init", "true")

(***************************************************************************)
(* The chrome.runtime.onMessage listener.  The listener has no return      *)
(* statement: it returns undefined on every path, so the message channel   *)
(* is closed when it returns and only a sendResponse made before that      *)
(* reaches the sender.                                                     *)
(***************************************************************************)
MessageTypes ==
  {"ADD_SUBTITLES", "UPDATE_SUBTITLES", "TOGGLE_SUBTITLES", "DESTROY_SUBTITLES",
   "UPDATE_SUBTITLE_SETTINGS"}

\* a missing field of a message is has* = FALSE, with a fixed value beside it.
\* ADD_SUBTITLES comes with and without target and subtitles,
\* UPDATE_SUBTITLE_SETTINGS with and without settings; the types the listener
\* does not handle come with every field and with none.
SomeSettings == CHOOSE x \in SettingsPool : TRUE

Message(type, hasT, target, hasS, subs, hasSet, set) ==
  [type |-> type, hasTarget |-> hasT, target |-> target, hasSubtitles |-> hasS,
   subtitles |-> subs, hasSettings |-> hasSet, settings |-> set]

Messages ==
  { Message("ADD_SUBTITLES", TRUE, tg, TRUE, subs, FALSE, SomeSettings) :
      tg \in Targets, subs \in CaptionSets }
  \cup { Message("ADD_SUBTITLES", FALSE, NoTarget, TRUE, subs, FALSE, SomeSettings) :
           subs \in CaptionSets }
  \cup { Message("ADD_SUBTITLES", hasT, NoTarget, FALSE, HiBye, FALSE, SomeSettings) :
           hasT \in BOOLEAN }
  \cup { Message("UPDATE_SUBTITLE_SETTINGS", FALSE, NoTarget, FALSE, HiBye, TRUE, set) :
           set \in SettingsPool }
  \cup { Message("UPDATE_SUBTITLE_SETTINGS", FALSE, NoTarget, FALSE, HiBye, FALSE,
                 SomeSettings) }
  \cup { Message(type, all, NoTarget, all, HiBye, all, SomeSettings) :
           type \in MessageTypes \ {"ADD_SUBTITLES", "UPDATE_SUBTITLE_SETTINGS"},
           all \in BOOLEAN }

NoResponse == [sent |-> 0, delivered |-> 0, success |-> FALSE, error |-> ""]

ListenerReturns == "undefined"

\* the channel stays open after the listener has returned only if it returned true
ChannelOpenAfterReturn == ListenerReturns = "true"

\* sendResponse({success, error}) on a channel that is open or closed
sendResponse(open, success, error) ==
  [sent |-> 1, delivered |-> IF open THEN 1 ELSE 0, success |-> success,
   error |-> error]

\* mutant: ADD_SUBTITLES is accepted without subtitles, and an unhandled type
\* tears the surface down
onMessage_Lax(st, message, g, t) ==
  IF message.type = "ADD_SUBTITLES"
    THEN IF message.hasTarget
           THEN [st |-> initCall(st, message.subtitles), init |-> TRUE,
                 resp |-> NoResponse]
           ELSE [st |-> st, init |-> FALSE,
                 resp |-> sendResponse(TRUE, FALSE,
                                       "Missing target or subtitles data")]
  ELSE IF message.type = "UPDATE_SUBTITLE_SETTINGS"
    THEN IF message.hasSettings
           THEN [st |-> updateSettings(st, message.settings, g, t), init |-> FALSE,
                 resp |-> sendResponse(TRUE, TRUE, "")]
           ELSE [st |-> st, init |-> FALSE,
                 resp |-> sendResponse(TRUE, FALSE,
                                       "Missing settings data")]
  ELSE [st |-> removeSubtitleElement(st), init |-> FALSE,
        resp |-> sendResponse(TRUE, FALSE, "Unknown message type")]

\* the synchronous part of the listener: the controller after it, whether
\* init was called (and is now suspended), and the response sent, if any
onMessage(st, message, g, t) ==
  IF message.type = "ADD_SUBTITLES"
    THEN IF message.hasTarget /\ message.hasSubtitles
           THEN [st |-> initCall(st, message.subtitles), init |-> TRUE,
                 resp |-> NoResponse]
           ELSE [st |-> st, init |-> FALSE,
                 resp |-> sendResponse(TRUE, FALSE,
                                       "Missing target or subtitles data")]
  ELSE IF message.type = "UPDATE_SUBTITLE_SETTINGS"
    THEN IF message.hasSettings
           THEN [st |-> updateSettings(st, message.settings, g, t), init |-> FALSE,
                 resp |-> sendResponse(TRUE, TRUE, "")]
           ELSE [st |-> st, init |-> FALSE,
                 resp |-> sendResponse(TRUE, FALSE,
                                       "Missing settings data")]
  ELSE [st |-> st, init |-> FALSE,
        resp |-> sendResponse(TRUE, FALSE, "Unknown message type")]

(***************************************************************************)
(* Initial state: the state after new SubtitlesManager()                   *)
(***************************************************************************)
Fresh ==
  [subtitles |-> << >>, video |-> Null, subtitleElement |-> Null,
   shadowHost |-> Null, shadowRoot |-> Null, isFullscreen |-> FALSE,
   settings |-> NullSettings, listeners |-> NoListeners,
   parentOf |-> [n \in Nodes |-> "none"], hostStyle |-> NoStyle, cssText |-> NoCss,
   textContent |-> "", display |-> "", currentTime |-> 0,
   fullscreenElement |-> "none", calls |-> << >>]

\* the controller and its nodes are st, nothing is queued or suspended
StateIs(st) ==
  /\ subtitles = st.subtitles
  /\ video = st.video
  /\ subtitleElement = st.subtitleElement
  /\ shadowHost = st.shadowHost
  /\ shadowRoot = st.shadowRoot
  /\ isFullscreen = st.isFullscreen
  /\ settings = st.settings
  /\ listeners = st.listeners
  /\ parentOf = st.parentOf
  /\ hostStyle = st.hostStyle
  /\ cssText = st.cssText
  /\ textContent = st.textContent
  /\ display = st.display
  /\ currentTime = st.currentTime
  /\ calls = st.calls
  /\ fullscreenElement = st.fullscreenElement
  /\ fsEvents = 0

Init ==
  /\ StateIs(Fresh)
  /\ pending = << >>
  /\ response = NoResponse
  /\ lastInit = [target |-> NoTarget, subtitles |-> << >>]

(***************************************************************************)
(* Actions                                                                 *)
(***************************************************************************)
RemoveAt(seq, i) == SubSeq(seq, 1, i - 1) \o SubSeq(seq, i + 1, Len(seq))

\* a message arrives and the listener runs to its return
Receive(message, g, t) ==
  \E r \in {onMessage(This, message, g, t)} :
     /\ r.init => listeners.resize + Len(pending) < MaxInits
     /\ response' = r.resp
     /\ Commit(r.st)
     /\ pending' = IF r.init THEN Append(pending, [target |-> message.target])
                   ELSE pending
     /\ lastInit' = IF r.init
                      THEN [target |-> message.target, subtitles |-> message.subtitles]
                      ELSE lastInit
     /\ UNCHANGED <<fullscreenElement, fsEvents>>

\* the storage read of the i-th suspended init settles and init runs to its
\* end; its promise resolves and the .then callback calls sendResponse
InitResume(i, outcome, g, t) ==
  \E r \in {initResume(This, pending[i].target, outcome, g, t)} :
     /\ FreeNodes(This) # {}
     /\ Commit(r)
     /\ pending' = RemoveAt(pending, i)
     /\ response' = sendResponse(ChannelOpenAfterReturn,
                                 r.calls[Len(r.calls)].ret = "true", "")
     /\ UNCHANGED <<fullscreenElement, fsEvents, lastInit>>

\* n handlers of one event run one after the other
RECURSIVE ContentHandlers(_, _, _)
ContentHandlers(st, t, n) ==
  IF n = 0 THEN st ELSE ContentHandlers(updateSubtitleContent(st, t), t, n - 1)

RECURSIVE PositionHandlers(_, _, _)
PositionHandlers(st, g, n) ==
  IF n = 0 THEN st ELSE PositionHandlers(updateSubtitlePosition(st, g), g, n - 1)

RECURSIVE FullscreenHandlers(_, _, _)
FullscreenHandlers(st, g, n) ==
  IF n = 0 THEN st ELSE FullscreenHandlers(handleFullscreenChange(st, g), g, n - 1)

\* video v fires timeupdate
TimeUpdate(v, t) ==
  /\ listeners.timeupdate[v] > 0
  /\ \E r \in {ContentHandlers(This, t, listeners.timeupdate[v])} : Commit(r)
  /\ response' = NoResponse
  /\ UNCHANGED <<fullscreenElement, fsEvents, pending, lastInit>>

\* the observed video changes size, the window is resized, or the window or
\* the document scrolls
GeometryChange(g) ==
  /\ listeners.resize > 0
  /\ \E r \in {PositionHandlers(This, g, listeners.resize)} : Commit(r)
  /\ response' = NoResponse
  /\ UNCHANGED <<fullscreenElement, fsEvents, pending, lastInit>>

\* the document enters or leaves fullscreen, or changes its fullscreen
\* element, and queues the notification
FullscreenChange(e) ==
  /\ e # fullscreenElement
  /\ fsEvents < MaxEvents
  /\ fullscreenElement' = e
  /\ fsEvents' = fsEvents + 1
  /\ response' = NoResponse
  /\ calls' = << >>
  /\ UNCHANGED <<subtitles, video, subtitleElement, shadowHost, shadowRoot,
                 isFullscreen, settings, listeners, parentOf, hostStyle, cssText,
                 textContent, display, currentTime, pending, lastInit>>

\* a queued fullscreen-change notification is dispatched to the registered
\* handlers
FullscreenDispatch(g) ==
  /\ fsEvents > 0
  /\ fsEvents' = fsEvents - 1
  /\ \E r \in {FullscreenHandlers(This, g, listeners.fullscreenchange)} : Commit(r)
  /\ response' = NoResponse
  /\ UNCHANGED <<fullscreenElement, pending, lastInit>>

FullscreenElements == {"none", "fsA"}

\* the messages whose handling reads the video's geometry and time
ReadsVideo(message) == message.type = "UPDATE_SUBTITLE_SETTINGS" /\ message.hasSettings

SomeGeometry == CHOOSE g \in Geometries : ~g.throws

\* the events of the page: timing ticks, geometry changes, fullscreen
PageEvent ==
  \/ \E v \in Videos, t \in Times : TimeUpdate(v, t)
  \/ \E g \in Geometries : GeometryChange(g)
  \/ \E e \in FullscreenElements : FullscreenChange(e)
  \/ \E g \in Geometries : FullscreenDispatch(g)

Settle ==
  \E i \in 1..Len(pending), outcome \in StoreOutcomes, g \in Geometries, t \in Times :
    InitResume(i, outcome, g, t)

Command ==
  \E message \in Messages :
    IF ReadsVideo(message)
      THEN \E g \in Geometries, t \in Times : Receive(message, g, t)
      ELSE Receive(message, SomeGeometry, 0)

Next == Command \/ Settle \/ PageEvent

Spec == Init /\ [][Next]_vars

(***************************************************************************)
(* The content check: the controller after one completed init, for every   *)
(* caption list of up to MaxLen captions with bounds in 0..MaxCapTime (and *)
(* the lists of CaptionSets), then timing ticks at every time in           *)
(* 0..MaxTime and settings updates, which change the sync offset.          *)
(***************************************************************************)
ContentTimes == 0..MaxTime

\* the text of a caption tells its place in the list
Texts == << "first", "second", "third", "fourth" >>

Intervals == { iv \in (0..MaxCapTime) \X (0..MaxCapTime) : iv[1] <= iv[2] }

ListsOfLen(n) ==
  { [i \in 1..n |-> Caption(f[i][1], f[i][2], Texts[i])] : f \in [1..n -> Intervals] }

ContentLists == CaptionSets \cup UNION { ListsOfLen(n) : n \in 0..MaxLen }

\* init(target, subs) has run from a fresh controller to its end
AfterInit(target, subs, outcome, g, t) ==
  /\ StateIs(initResume(initCall(Fresh, subs), target, outcome, g, t))
  /\ pending = << >>
  /\ response = sendResponse(ChannelOpenAfterReturn,
                             findTargetVideo(target) # Null, "")
  /\ lastInit = [target |-> target, subtitles |-> subs]

UpdateSettingsMessage(set) ==
  Message("UPDATE_SUBTITLE_SETTINGS", FALSE, NoTarget, FALSE, HiBye, TRUE, set)

InitContent ==
  \E subs \in ContentLists, outcome \in StoreOutcomes, t \in ContentTimes :
    AfterInit(NoTarget, subs, outcome, SomeGeometry, t)

NextContent ==
  \/ \E t \in ContentTimes : TimeUpdate(0, t)
  \/ \E set \in SettingsPool, t \in ContentTimes :
       Receive(UpdateSettingsMessage(set), SomeGeometry, t)

SpecContent == InitContent /\ [][NextContent]_vars

(***************************************************************************)
(* The resolution check: a fresh controller whose listener has received    *)
(* ADD_SUBTITLES with any target descriptor of AllTargets; that init       *)
(* settles, then the page events follow.                                   *)
(***************************************************************************)
InitResolve ==
  \E target \in AllTargets :
    /\ StateIs(initCall(Fresh, HiBye))
    /\ pending = << [target |-> target] >>
    /\ response = NoResponse
    /\ lastInit = [target |-> target, subtitles |-> HiBye]

NextResolve ==
  \/ Settle
  \/ \E v \in Videos, t \in Times : TimeUpdate(v, t)
  \/ \E g \in Geometries : GeometryChange(g)

SpecResolve == InitResolve /\ [][NextResolve]_vars

(***************************************************************************)
(* The re-init check: the controller after one completed init with a       *)
(* target that resolves; then ADD_SUBTITLES messages with the same target  *)
(* and a caption set other than the one in use, the settling of their      *)
(* inits, and the page events.                                             *)
(***************************************************************************)
AddSubtitlesMessage(target, subs) ==
  Message("ADD_SUBTITLES", TRUE, target, TRUE, subs, FALSE, SomeSettings)

InitReinit ==
  \E subs \in CaptionSets, outcome \in StoreOutcomes, g \in Geometries, t \in Times :
    AfterInit(NoTarget, subs, outcome, g, t)

NextReinit ==
  \/ \E subs \in CaptionSets \ {subtitles} :
       pending = << >> /\ Receive(AddSubtitlesMessage(NoTarget, subs), SomeGeometry, 0)
  \/ Settle
  \/ PageEvent

SpecReinit == InitReinit /\ [][NextReinit]_vars

(***************************************************************************)
(* The stored-settings check: a fresh controller that has handled          *)
(* UPDATE_SUBTITLE_SETTINGS {settings: s} while it had no render surface;  *)
(* then ADD_SUBTITLES messages with a target that resolves, the settling   *)
(* of their inits, and the page events.                                    *)
(***************************************************************************)
InitStored ==
  \E s \in SettingsPool :
    /\ StateIs(updateSettings(Fresh, s, SomeGeometry, 0))
    /\ pending = << >>
    /\ response = sendResponse(TRUE, TRUE, "")
    /\ lastInit = [target |-> NoTarget, subtitles |-> << >>]

NextStored ==
  \/ \E subs \in CaptionSets :
       Receive(AddSubtitlesMessage(NoTarget, subs), SomeGeometry, 0)
  \/ Settle
  \/ PageEvent

SpecStored == InitStored /\ [][NextStored]_vars

(***************************************************************************)
(* The fullscreen check: a controller whose first init is suspended; the   *)
(* document moves between no fullscreen element and two fullscreen         *)
(* elements, and one transition is announced by up to FullscreenVariants   *)
(* notifications (fullscreenchange and its vendor-prefixed variants, all   *)
(* registered with the same handler).                                      *)
(***************************************************************************)
FullscreenVariants == 4

FullscreenTargets == {"none", "fsA", "fsB"}

\* the document's fullscreen element becomes e and k notifications are queued
FullscreenTransition(e, k) ==
  /\ e # fullscreenElement
  /\ fsEvents + k <= FullscreenVariants
  /\ fullscreenElement' = e
  /\ fsEvents' = fsEvents + k
  /\ response' = NoResponse
  /\ calls' = << >>
  /\ UNCHANGED <<subtitles, video, subtitleElement, shadowHost, shadowRoot,
                 isFullscreen, settings, listeners, parentOf, hostStyle, cssText,
                 textContent, display, currentTime, pending, lastInit>>

InitFullscreen ==
  /\ StateIs(initCall(Fresh, HiBye))
  /\ pending = << [target |-> NoTarget] >>
  /\ response = NoResponse
  /\ lastInit = [target |-> NoTarget, subtitles |-> HiBye]

NextFullscreen ==
  \/ Settle
  \/ \E subs \in CaptionSets :
       Receive(AddSubtitlesMessage(NoTarget, subs), SomeGeometry, 0)
  \/ \E e \in FullscreenTargets, k \in 1..FullscreenVariants : FullscreenTransition(e, k)
  \/ \E g \in Geometries : FullscreenDispatch(g)
  \/ \E g \in Geometries : GeometryChange(g)

SpecFullscreen == InitFullscreen /\ [][NextFullscreen]_vars

(***************************************************************************)
(* The overlap check: ADD_SUBTITLES messages whose targets resolve to      *)
(* different videos; a second init can start while the first is suspended  *)
(* on the storage read, and the reads settle in either order.              *)
(***************************************************************************)
OverlapTargets == { NoTarget, [videoId |-> "v2", videoIndex |-> Undefined] }

NextOverlap ==
  \/ \E target \in OverlapTargets, subs \in CaptionSets :
       Receive(AddSubtitlesMessage(target, subs), SomeGeometry, 0)
  \/ Settle
  \/ \E v \in Videos, t \in Times : TimeUpdate(v, t)
  \/ \E g \in Geometries : GeometryChange(g)

SpecOverlap == Init /\ [][NextOverlap]_vars

(***************************************************************************)
(* Properties.                                                             *)
(***************************************************************************)
AttachedNodes == { n \in Nodes : parentOf[n] # "none" }

\* the last step ended an init call that returned ret
InitReturned(ret) ==
  calls # << >> /\ calls[Len(calls)] = [fn |-> "init", ret |-> ret]

\* where the mount node belongs for a document fullscreen element e
ContainerFor(e) == IF e = "none" THEN "body" ELSE e

\* the caption the content node must show at adjusted time t: the first in
\* list order whose interval holds t
Active(subs, t) == { i \in 1..Len(subs) : subs[i].start <= t /\ subs[i].end >= t }

ShowsCaptionAt(subs, t) ==
  IF Active(subs, t) = {}
    THEN textContent = "" /\ display = "none"
    ELSE /\ \E i \in Active(subs, t) :
              /\ \A k \in Active(subs, t) : i <= k
              /\ textContent = subs[i].text
         /\ display = "block"

\* C4: whenever init returns failure because no target video is found, no
\* render surface is attached to the document afterwards: no mount node is in
\* the document and the three surface references are null.
C4_FailedInitLeavesNoSurface ==
  InitReturned("false")
    => /\ AttachedNodes = {}
       /\ shadowHost = Null /\ shadowRoot = Null /\ subtitleElement = Null

\* the response of a settings update that was carried out
UpdateDone == sendResponse(TRUE, TRUE, "")

\* C6: when an init found its video but ran with settings unset (the store
\* read failed), a later updateSettings(s) makes the overlay operational: after
\* the update a render surface exists in the document, styled from s.
C6_UpdateMakesOverlayOperational ==
  [][ (settings = NullSettings /\ video # Null /\ response' = UpdateDone)
        => /\ shadowHost' # Null /\ subtitleElement' # Null
           /\ AttachedNodes' = {shadowHost'}
           /\ cssText' = StyleOf(settings') ]_vars

\* C8: every message whose handling has completed got exactly one response:
\* sendResponse was called once and the call reached the sender.
C8_ExactlyOneResponse ==
  response # NoResponse => response.sent = 1 /\ response.delivered = 1

\* the methods a handler called, in order
Methods(c) == [i \in 1..Len(c) |-> c[i].fn]

\* C7: with a render surface present, when the notification of an entry into
\* or an exit from fullscreen is handled, the mount node is afterwards the only
\* mount node in the document, under the fullscreen element when the document
\* is fullscreen and under body otherwise, and updateSubtitlePosition has run
\* after the node was detached and appended again.
C7_FullscreenReparent ==
  [][ (fsEvents' < fsEvents /\ shadowHost # Null
       /\ isFullscreen # (fullscreenElement # "none"))
        => /\ shadowHost' = shadowHost
           /\ AttachedNodes' = {shadowHost}
           /\ parentOf'[shadowHost] = ContainerFor(fullscreenElement')
           /\ isFullscreen' = (fullscreenElement' # "none")
           /\ Methods(calls') = << "shadowHost.remove", "appendSubtitleElement",
                                   "updateSubtitlePosition" >> ]_vars

\* an exit from fullscreen has been handled: the node went back under body
\* and was positioned
C7_Witness ==
  /\ shadowHost # Null
  /\ fullscreenElement = "none" /\ fsEvents = 0
  /\ parentOf[shadowHost] = "body"
  /\ calls = << [fn |-> "shadowHost.remove", ret |-> "void"],
                [fn |-> "appendSubtitleElement", ret |-> "void"],
                [fn |-> "updateSubtitlePosition", ret |-> "true"] >>

\* the commands the listener rejects
Rejected(m) ==
  \/ m.type \in {"UPDATE_SUBTITLES", "TOGGLE_SUBTITLES", "DESTROY_SUBTITLES"}
  \/ m.type = "ADD_SUBTITLES" /\ ~(m.hasTarget /\ m.hasSubtitles)
  \/ m.type = "UPDATE_SUBTITLE_SETTINGS" /\ ~m.hasSettings

\* C9: a rejected command (an unhandled type, ADD_SUBTITLES lacking target or
\* subtitles, UPDATE_SUBTITLE_SETTINGS lacking settings) is answered with
\* success = false and an error, and leaves the captions, the settings, the
\* video reference, the render surface, the fullscreen flag, the registered
\* handlers and the suspended inits as they were.
C9_RejectedChangesNothing ==
  [][ \A m \in Messages :
        (Rejected(m) /\ Receive(m, SomeGeometry, 0))
          => /\ UNCHANGED <<subtitles, settings, video, subtitleElement, shadowHost,
                            shadowRoot, isFullscreen, listeners, parentOf, hostStyle,
                            cssText, textContent, display, pending>>
             /\ response'.sent = 1 /\ response'.delivered = 1
             /\ response'.success = FALSE /\ response'.error # "" ]_vars

\* a command was rejected while an overlay was showing and an init was
\* suspended
C9_Witness ==
  /\ response.sent = 1 /\ response.success = FALSE /\ response.error # ""
  /\ shadowHost # Null /\ settings # NullSettings /\ pending # << >>

\* the sync offset updateSubtitleContent adds to the video's time
OffsetOf(s) == IF isValidTimeOffset(SyncOffsetOf(s)) THEN s.syncOffset ELSE 0

\* the last step ran updateSubtitleContent on an existing surface
ContentUpdated ==
  /\ subtitleElement # Null /\ video # Null
  /\ \E i \in 1..Len(calls) : calls[i].fn = "updateSubtitleContent"

\* C1: for every caption list and every adjusted time t, after
\* updateSubtitleContent the content node shows the text of the first caption
\* in list order with start <= t <= end and is visible; when no caption holds
\* t the text is empty and the node is hidden.
C1_FirstActiveCaptionShown ==
  ContentUpdated => ShowsCaptionAt(subtitles, currentTime + OffsetOf(settings))

\* a timing tick at a time that two captions hold shows the first of them
C1_Witness ==
  /\ ContentUpdated
  /\ \A i \in 1..Len(calls) : calls[i].fn = "updateSubtitleContent"
  /\ Cardinality(Active(subtitles, currentTime + OffsetOf(settings))) = 2
  /\ textContent = "first" /\ display = "block"

\* a timing tick has been handled with the captions Hi (0 s to 2 s) and Bye
\* (2 s to 4 s) and sync offset 0
HiByeTick ==
  /\ subtitles = HiBye /\ OffsetOf(settings) = 0
  /\ subtitleElement # Null /\ video # Null
  /\ calls # << >> /\ \A i \in 1..Len(calls) : calls[i].fn = "updateSubtitleContent"

\* C2 as stated: with the captions Hi and Bye and offset 0, a timing tick at
\* 1.5 s displays "Hi" and a timing tick at 2.0 s displays "Bye".
C2_TickShowsHiThenBye ==
  HiByeTick => /\ currentTime = 3 => textContent = "Hi" /\ display = "block"
               /\ currentTime = 4 => textContent = "Bye" /\ display = "block"

\* C2 amended: with the captions Hi and Bye and offset 0, a timing tick at
\* 1.5 s displays "Hi" and a timing tick at 2.0 s displays "Hi" as well: both
\* captions hold 2.0 s and the first in list order is shown.
C2_TickShowsHiAtBoundary ==
  HiByeTick => /\ currentTime = 3 => textContent = "Hi" /\ display = "block"
               /\ currentTime = 4 => textContent = "Hi" /\ display = "block"

C2_Witness ==
  HiByeTick /\ currentTime = 4 /\ textContent = "Hi" /\ display = "block"

\* C10: target resolution follows videoId > videoIndex > first video. With
\* the videos [none, "v2", none], once the init has run: a target with videoId
\* "v2" resolved to the video at index 1 whatever its videoIndex, a target
\* without videoId and with videoIndex 2 to the third video, and a target
\* with neither to the video at index 0.
C10_TargetPrecedence ==
  pending = << >>
    => LET target == lastInit.target
       IN /\ target.videoId = "v2" => video = 1
          /\ (target.videoId = "undefined" /\ target.videoIndex = 2) => video = 2
          /\ target = NoTarget => video = 0

\* a target whose videoId and videoIndex name different videos has resolved
\* by its videoId
C10_Witness ==
  /\ pending = << >>
  /\ lastInit.target = [videoId |-> "v2", videoIndex |-> 0]
  /\ video = 1 /\ InitReturned("true")

\* C3: after init has been called twice in sequence with different caption
\* sets and a target that resolves, exactly one render surface is attached to
\* the document and the content shown is computed from the second caption set.
C3_ReinitLeavesOneSurface ==
  (listeners.resize = 2 /\ InitReturned("true"))
    => /\ Cardinality(AttachedNodes) = 1
       /\ AttachedNodes = {shadowHost}
       /\ subtitleElement # Null
       /\ ShowsCaptionAt(lastInit.subtitles, currentTime + OffsetOf(settings))

\* C5: settings s stored by updateSettings while no render surface existed
\* are the settings the next init builds and styles its surface with, for
\* every outcome of the store read.
C5_StoredSettingsUsedByInit ==
  [][ (listeners.resize = 0 /\ listeners'.resize = 1 /\ settings # NullSettings)
        => /\ settings' = settings
           /\ shadowHost' # Null /\ subtitleElement' # Null
           /\ cssText' = StyleOf(settings) ]_vars

\* C11: a sync offset that fails the validity check (NaN, or settings unset)
\* is treated as zero: after updateSubtitleContent the content node shows what
\* it shows with syncOffset = 0, the first caption that holds the video's own
\* time, and the call has returned normally.
C11_InvalidOffsetIsZero ==
  (ContentUpdated /\ SyncOffsetOf(settings) \in {NaN, Undefined})
    => /\ ShowsCaptionAt(subtitles, currentTime)
       /\ \A i \in 1..Len(calls) :
            calls[i].fn = "updateSubtitleContent" => calls[i].ret \in {"true", "false"}

\* a timing tick with syncOffset = NaN shows the caption that holds the
\* video's time
C11_Witness ==
  /\ ContentUpdated /\ settings # NullSettings /\ settings.syncOffset = NaN
  /\ \A i \in 1..Len(calls) : calls[i].fn = "updateSubtitleContent"
  /\ Active(subtitles, currentTime) # {} /\ display = "block"

\* the position updateSubtitlePosition computes from settings s and geometry g
PositionFor(s, g) ==
  [top |-> g.bottom - s.offsetFromBottom + g.scrollY, left |-> g.left + (g.width \div 2)]

\* C12: updateSettings(s) replaces the whole snapshot, and when a render
\* surface exists the same step runs applyStyles, updateSubtitlePosition and
\* updateSubtitleContent in this order, each on the new snapshot: the style is
\* the style of s, the position is computed with s.offsetFromBottom, and the
\* caption shown is the one at the video's time plus the offset of s.
C12_UpdateSettingsAtomicOrdered ==
  [][ (subtitleElement # Null /\ response' = UpdateDone)
        => /\ settings' \in SettingsPool
           /\ Methods(calls') = << "applyStyles", "updateSubtitlePosition",
                                   "updateSubtitleContent" >>
           /\ cssText' = StyleOf(settings')
           /\ calls'[2].ret = "true"
                => \E g \in Geometries : ~g.throws /\ hostStyle' = PositionFor(settings', g)
           /\ calls'[2].ret = "false" => hostStyle' = hostStyle
           /\ video # Null
                => ShowsCaptionAt(subtitles, currentTime + OffsetOf(settings))' ]_vars

\* a settings update on an existing surface has restyled, repositioned and
\* recomputed the content
C12_Witness ==
  /\ response = UpdateDone /\ subtitleElement # Null
  /\ calls = << [fn |-> "applyStyles", ret |-> "void"],
                [fn |-> "updateSubtitlePosition", ret |-> "true"],
                [fn |-> "updateSubtitleContent", ret |-> "true"] >>
  /\ cssText = StyleOf(settings)

\* the last step called updateSubtitlePosition on the mount node it already
\* had (the step did not rebuild the surface), with video and settings set,
\* and every such call returned false: the geometry read failed
PositionReadFailed ==
  /\ shadowHost # Null /\ shadowHost' = shadowHost
  /\ \A i \in 1..Len(calls') : calls'[i].fn # "removeSubtitleElement"
  /\ video' # Null /\ settings' # NullSettings
  /\ \E i \in 1..Len(calls') : calls'[i].fn = "updateSubtitlePosition"
  /\ \A i \in 1..Len(calls') :
       calls'[i].fn = "updateSubtitlePosition" => calls'[i].ret = "false"

\* C13: when the geometry read fails during updateSubtitlePosition the call
\* returns false to its caller and the mount node's top and left both keep
\* the values they had.
C13_FailedPositionKeepsCoordinates ==
  [][ PositionReadFailed => hostStyle' = hostStyle ]_vars

\* a geometry change whose read failed has left a positioned mount node
\* where it was
C13_Witness ==
  /\ shadowHost # Null /\ video # Null /\ settings # NullSettings
  /\ calls = << [fn |-> "updateSubtitlePosition", ret |-> "false"] >>
  /\ hostStyle # NoStyle

\* C14: in every reachable state, under any interleaving of init calls
\* (overlapping ones included), settings updates, timing ticks and fullscreen
\* notifications, at most one mount node is attached to the document.
C14_AtMostOneMountNode ==
  Cardinality(AttachedNodes) <= 1

\* a second init has rebuilt the surface and one mount node is attached
C14_Witness ==
  /\ listeners.resize = 2 /\ InitReturned("true")
  /\ \E i \in 1..Len(calls) : calls[i] = [fn |-> "addSubtitleElement", ret |-> "true"]
  /\ Cardinality(AttachedNodes) = 1

\* C15: whenever init returns true a render surface has been built and is
\* attached to the document.
C15_InitTrueBuiltSurface ==
  InitReturned("true")
    => /\ shadowHost # Null /\ shadowRoot # Null /\ subtitleElement # Null
       /\ AttachedNodes = {shadowHost}

\* C17: between operations the three surface references are all null or all
\* set; when they are set the mount node is the one node attached to the
\* document, and when they are null no mount node is attached.
C17_SurfaceReferencesConsistent ==
  \/ /\ shadowHost = Null /\ shadowRoot = Null /\ subtitleElement = Null
     /\ AttachedNodes = {}
  \/ /\ shadowHost # Null /\ shadowRoot # Null /\ subtitleElement # Null
     /\ AttachedNodes = {shadowHost}

\* a rebuild has ended with the three references set and the node attached
C17_Witness ==
  /\ listeners.resize = 2
  /\ \E i \in 1..Len(calls) : calls[i] = [fn |-> "removeSubtitleElement", ret |-> "void"]
  /\ shadowHost # Null /\ shadowRoot # Null /\ subtitleElement # Null
  /\ parentOf[shadowHost] # "none"

\* C19: after any number of init calls the controller has at most one
\* registered handler per event source, and none on a video that is not its
\* video reference.
C19_OneHandlerPerSource ==
  /\ listeners.resize <= 1 /\ listeners.scroll <= 1 /\ listeners.fullscreenchange <= 1
  /\ \A v \in Videos :
       /\ listeners.timeupdate[v] <= 1 /\ listeners.resizeObserver[v] <= 1
       /\ (listeners.timeupdate[v] > 0 \/ listeners.resizeObserver[v] > 0) => v = video

\* the times the last step detached the mount node to re-append it
Reparentings(c) == Cardinality({ i \in 1..Len(c) : c[i].fn = "shadowHost.remove" })

\* C16: the notifications of all variants act as one event. Handling one
\* notification detaches and re-appends the mount node at most once, however
\* many handlers are registered, and a notification that arrives while the
\* document's fullscreen status equals isFullscreen (as every notification
\* after the first of one transition does) leaves the node's parent and
\* coordinates as they were.
C16_VariantsActAsOneEvent ==
  [][ fsEvents' < fsEvents
        => /\ Reparentings(calls') <= 1
           /\ isFullscreen = (fullscreenElement # "none")
                => /\ parentOf' = parentOf /\ hostStyle' = hostStyle
                   /\ isFullscreen' = isFullscreen /\ calls' = << >> ]_vars

\* the last notification of a transition into fullscreen has been handled
\* without effect: the node is where the first notification put it
C16_Witness ==
  /\ shadowHost # Null /\ pending = << >> /\ fsEvents = 0
  /\ listeners.fullscreenchange = 2
  /\ calls = << >> /\ response = NoResponse
  /\ isFullscreen /\ parentOf[shadowHost] = "fsA"

\* C18: whenever a render surface exists and no notification is waiting to
\* be handled, the mount node's parent is the document's fullscreen element
\* if there is one and body otherwise, and isFullscreen tells whether there
\* is one.
C18_ParentFollowsFullscreenElement ==
  (shadowHost # Null /\ fsEvents = 0)
    => /\ parentOf[shadowHost] = ContainerFor(fullscreenElement)
       /\ isFullscreen = (fullscreenElement # "none")

\* C20: when two init calls have both completed, overlapping or not and in
\* whichever order their storage reads settled, the caption list and the
\* video reference both come from the init call started last.
C20_CaptionsAndVideoFromLastInit ==
  (pending = << >> /\ listeners.resize = 2)
    => /\ subtitles = lastInit.subtitles
       /\ video = findTargetVideo(lastInit.target)

====
